---- MODULE Spec2Model ----
(***************************************************************************)
(* TransparentCache (cache.go): a price cache in front of a PriceService.  *)
(*                                                                         *)
(* Every goroutine that runs GetPriceFor is a process of the model: the    *)
(* workers 1..MaxKeys that one GetPricesFor call starts (getConcurrentPrice)*)
(* and the direct callers in Callers.  The coordinator (the body of        *)
(* GetPricesFor) and the collector (handleResults) are two more processes. *)
(* Each statement of cache.go is one step; the position of a process is    *)
(* the line it is about to execute ("L38" = cache.go line 38).             *)
(* The channels of GetPricesFor are unbuffered: a send and its receive are *)
(* one joint step of the two goroutines.                                   *)
(***************************************************************************)
EXTENDS Integers, Sequences, FiniteSets, TLC

\* ---------------------------------------------------------------- bounds
maxAge == 1
MaxTime == 2
MaxKeys == 2

Keys == {"A", "B"}
Prices == {1, 2}

Workers == 1..MaxKeys
Callers == {0 - 1, 0}
Procs == Workers \cup Callers
NoOne == 0 - 2

Time == 0..MaxTime
\* time.Time{}: the zero time, what a map read of an absent key yields. It is
\* so far in the past that adding maxAge to it stays before every clock value.
ZeroTime == 0 - (maxAge + 1)
\* Ghost stamp of a price whose timestamp (line 51) is not written yet.
Pending == MaxTime + 1

Nil == << >>
ServiceErr(k) == <<"service failure", k>>
Wrap(e) == <<"getting price from service : ">> \o e

NoResult == [price |-> 0, err |-> Nil]

VARIABLES
    now,               \* time.Now()
    prices,            \* c.prices
    expirationByItem,  \* c.expirationByItem
    mutex,             \* c.Mutex: the process holding it, or NoOne
    fatal,             \* the Go runtime ended the program: "none" or the reason
    pc,                \* position of each process running GetPriceFor
    itemCode,          \* GetPriceFor's argument
    price,             \* GetPriceFor's local price
    ts,                \* the value read from c.expirationByItem at line 40
    result,            \* what GetPriceFor returned: [price, err]
    seenAt,            \* ghost: the stored-at stamp of the price read at line 38
    checkAt,           \* ghost: the value of time.Now() at line 40
    upCalls,           \* ghost: upstream calls made by the current call
    acquired,          \* ghost: the current call has taken the lock
    priceBy,           \* ghost: who wrote prices[k] last
    tsBy,              \* ghost: who wrote expirationByItem[k] last
    cpc,               \* position of the coordinator (GetPricesFor)
    itemCodes,         \* GetPricesFor's argument
    i,                 \* index of the range loop, line 65
    w,                 \* the WaitGroup counter
    inputClosed,       \* close(input) done
    errOutputClosed,   \* close(errOutput) done
    outputClosed,      \* close(output) done
    err,               \* GetPricesFor's local err, line 71
    returned,          \* the slice GetPricesFor returned
    hpc,               \* position of the collector (handleResults)
    results            \* handleResults' local results

store == <<prices, expirationByItem, mutex>>
ghost == <<seenAt, checkAt, upCalls, acquired, priceBy, tsBy>>
locals == <<pc, itemCode, price, ts, result>>
batch == <<cpc, itemCodes, i, w, inputClosed, errOutputClosed, outputClosed,
           err, returned, hpc, results>>
vars == <<now, fatal, store, ghost, locals, batch>>

\* ------------------------------------------------------------- helpers
\* mutant: the assignment replaces the map by one that holds k alone
PutAlone(m, k, v) == [x \in {k} |-> v]

\* map assignment m[k] = v
Put(m, k, v) == [x \in DOMAIN m \cup {k} |-> IF x = k THEN v ELSE m[x]]

\* time.Time.Add
Add(t, d) == t + d
\* mutant: not before, instead of after
NotBefore(t, u) == t >= u

\* time.Time.After
After(t, u) == t > u

\* mutant: maxAge is not added
FreshNoAdd(stamp, clock) == After(stamp, clock)

\* line 40: c.expirationByItem[itemCode].Add(c.maxAge).After(time.Now())
Fresh(stamp, clock) == After(Add(stamp, maxAge), clock)

\* map read of c.expirationByItem: the zero value for an absent key
ExpirationOf(k) ==
    IF k \in DOMAIN expirationByItem THEN expirationByItem[k] ELSE ZeroTime

\* ghost: the stamp that belongs to the value prices[k] holds now
StampOf(k) ==
    IF \E q \in Procs : pc[q] = "L51" /\ itemCode[q] = k THEN Pending
    ELSE ExpirationOf(k)

KeySeqs == UNION {[1..n -> Keys] : n \in 0..MaxKeys}

Init ==
    /\ now = 0
    /\ prices = << >>
    /\ expirationByItem = << >>
    /\ mutex = NoOne
    /\ fatal = "none"
    /\ pc = [p \in Procs |-> IF p \in Workers THEN "off" ELSE "idle"]
    /\ itemCode = [p \in Procs |-> "A"]
    /\ price = [p \in Procs |-> 0]
    /\ ts = [p \in Procs |-> ZeroTime]
    /\ result = [p \in Procs |-> NoResult]
    /\ seenAt = [p \in Procs |-> ZeroTime]
    /\ checkAt = [p \in Procs |-> ZeroTime]
    /\ upCalls = [p \in Procs |-> 0]
    /\ acquired = [p \in Procs |-> FALSE]
    /\ priceBy = << >>
    /\ tsBy = << >>
    /\ cpc = "idle"
    /\ itemCodes = << >>
    /\ i = 0
    /\ w = 0
    /\ inputClosed = FALSE
    /\ errOutputClosed = FALSE
    /\ outputClosed = FALSE
    /\ err = Nil
    /\ returned = << >>
    /\ hpc = "off"
    /\ results = << >>

\* ------------------------------------------------------------ the clock
Tick ==
    /\ fatal = "none"
    /\ now < MaxTime
    /\ now' = now + 1
    /\ UNCHANGED <<fatal, store, ghost, locals, batch>>

\* ---------------------------------------------------------- GetPriceFor
\* A direct caller enters GetPriceFor(k).
Call(p, k) ==
    /\ fatal = "none"
    /\ p \in Callers
    /\ pc[p] = "idle"
    /\ pc' = [pc EXCEPT ![p] = "L38"]
    /\ itemCode' = [itemCode EXCEPT ![p] = k]
    /\ UNCHANGED <<now, fatal, store, ghost, price, ts, result, batch>>

\* line 38-39: price, ok := c.prices[itemCode]; if ok
ReadPrice(p) ==
    /\ fatal = "none"
    /\ pc[p] = "L38"
    /\ LET k == itemCode[p] IN
         IF k \in DOMAIN prices
         THEN /\ price' = [price EXCEPT ![p] = prices[k]]
              /\ seenAt' = [seenAt EXCEPT ![p] = StampOf(k)]
              /\ pc' = [pc EXCEPT ![p] = "L40"]
         ELSE /\ price' = [price EXCEPT ![p] = 0]
              /\ seenAt' = [seenAt EXCEPT ![p] = ZeroTime]
              /\ pc' = [pc EXCEPT ![p] = "L44"]
    /\ UNCHANGED <<now, fatal, store, checkAt, upCalls, acquired, priceBy, tsBy,
                   itemCode, ts, result, batch>>

\* mutant: a hit renews the stamp of the key (a sliding expiration)
CheckFreshRenews(p) ==
    /\ fatal = "none"
    /\ pc[p] = "L40"
    /\ ts' = [ts EXCEPT ![p] = ExpirationOf(itemCode[p])]
    /\ checkAt' = [checkAt EXCEPT ![p] = now]
    /\ IF After(Add(ExpirationOf(itemCode[p]), maxAge), now)
       THEN /\ result' = [result EXCEPT ![p] = [price |-> price[p], err |-> Nil]]
            /\ expirationByItem' = Put(expirationByItem, itemCode[p], now)
            /\ tsBy' = Put(tsBy, itemCode[p], p)
            /\ pc' = [pc EXCEPT ![p] = "ret"]
       ELSE /\ result' = result
            /\ expirationByItem' = expirationByItem
            /\ tsBy' = tsBy
            /\ pc' = [pc EXCEPT ![p] = "L44"]
    /\ UNCHANGED <<now, fatal, prices, mutex, seenAt, upCalls, acquired, priceBy,
                   itemCode, price, batch>>

\* line 40-43: if c.expirationByItem[itemCode].Add(c.maxAge).After(time.Now())
\* then return price, nil. ts keeps the stamp the map read gave.
CheckFresh(p) ==
    /\ fatal = "none"
    /\ pc[p] = "L40"
    /\ ts' = [ts EXCEPT ![p] = ExpirationOf(itemCode[p])]
    /\ checkAt' = [checkAt EXCEPT ![p] = now]
    /\ IF Fresh(ExpirationOf(itemCode[p]), now)
       THEN /\ result' = [result EXCEPT ![p] = [price |-> price[p], err |-> Nil]]
            /\ pc' = [pc EXCEPT ![p] = "ret"]
       ELSE /\ result' = result
            /\ pc' = [pc EXCEPT ![p] = "L44"]
    /\ UNCHANGED <<now, fatal, store, seenAt, upCalls, acquired, priceBy, tsBy,
                   itemCode, price, batch>>

\* mutant: the failed lookup's zero price is stored before the error is returned
ServiceFailsAndStores(p) ==
    /\ fatal = "none"
    /\ pc[p] = "L44"
    /\ upCalls' = [upCalls EXCEPT ![p] = @ + 1]
    /\ result' = [result EXCEPT
                    ![p] = [price |-> 0, err |-> Wrap(ServiceErr(itemCode[p]))]]
    /\ prices' = Put(prices, itemCode[p], 0)
    /\ expirationByItem' = Put(expirationByItem, itemCode[p], now)
    /\ pc' = [pc EXCEPT ![p] = "ret"]
    /\ UNCHANGED <<now, fatal, mutex, seenAt, checkAt, acquired, priceBy, tsBy,
                   itemCode, price, ts, batch>>

\* line 44-47: the upstream call; on failure return 0 and the wrapped error
ServiceFails(p) ==
    /\ fatal = "none"
    /\ pc[p] = "L44"
    /\ upCalls' = [upCalls EXCEPT ![p] = @ + 1]
    /\ result' = [result EXCEPT
                    ![p] = [price |-> 0, err |-> Wrap(ServiceErr(itemCode[p]))]]
    /\ pc' = [pc EXCEPT ![p] = "ret"]
    /\ UNCHANGED <<now, fatal, store, seenAt, checkAt, acquired, priceBy, tsBy,
                   itemCode, price, ts, batch>>

\* line 44-45: the upstream call succeeds with price v
ServiceReturns(p, v) ==
    /\ fatal = "none"
    /\ pc[p] = "L44"
    /\ upCalls' = [upCalls EXCEPT ![p] = @ + 1]
    /\ price' = [price EXCEPT ![p] = v]
    /\ pc' = [pc EXCEPT ![p] = "L48"]
    /\ UNCHANGED <<now, fatal, store, seenAt, checkAt, acquired, priceBy, tsBy,
                   itemCode, ts, result, batch>>

\* mutant: Lock does not wait
CanLockAlways(p) == TRUE

\* sync.Mutex.Lock blocks while the mutex is held
CanLock(p) == mutex = NoOne

\* line 48: c.Lock()
Lock(p) ==
    /\ fatal = "none"
    /\ pc[p] = "L48"
    /\ CanLock(p)
    /\ mutex' = p
    /\ acquired' = [acquired EXCEPT ![p] = TRUE]
    /\ pc' = [pc EXCEPT ![p] = "L50"]
    /\ UNCHANGED <<now, fatal, prices, expirationByItem, seenAt, checkAt, upCalls,
                   priceBy, tsBy, itemCode, price, ts, result, batch>>

\* mutant: line 50 stores the price only for a key that has none (the first
\* writer wins)
WritePriceIfAbsent(p) ==
    /\ fatal = "none"
    /\ pc[p] = "L50"
    /\ prices' = IF itemCode[p] \in DOMAIN prices THEN prices
                 ELSE Put(prices, itemCode[p], price[p])
    /\ priceBy' = Put(priceBy, itemCode[p], p)
    /\ pc' = [pc EXCEPT ![p] = "L51"]
    /\ UNCHANGED <<now, fatal, expirationByItem, mutex, seenAt, checkAt, upCalls,
                   acquired, tsBy, itemCode, price, ts, result, batch>>

\* line 50: c.prices[itemCode] = price
WritePrice(p) ==
    /\ fatal = "none"
    /\ pc[p] = "L50"
    /\ prices' = Put(prices, itemCode[p], price[p])
    /\ priceBy' = Put(priceBy, itemCode[p], p)
    /\ pc' = [pc EXCEPT ![p] = "L51"]
    /\ UNCHANGED <<now, fatal, expirationByItem, mutex, seenAt, checkAt, upCalls,
                   acquired, tsBy, itemCode, price, ts, result, batch>>

\* mutant: line 51 is missing, the stamp is not written
WriteExpirationSkipped(p) ==
    /\ fatal = "none"
    /\ pc[p] = "L51"
    /\ pc' = [pc EXCEPT ![p] = "L52"]
    /\ UNCHANGED <<now, fatal, store, ghost, itemCode, price, ts, result, batch>>

\* line 51: c.expirationByItem[itemCode] = time.Now()
WriteExpiration(p) ==
    /\ fatal = "none"
    /\ pc[p] = "L51"
    /\ expirationByItem' = Put(expirationByItem, itemCode[p], now)
    /\ tsBy' = Put(tsBy, itemCode[p], p)
    /\ pc' = [pc EXCEPT ![p] = "L52"]
    /\ UNCHANGED <<now, fatal, prices, mutex, seenAt, checkAt, upCalls, acquired,
                   priceBy, itemCode, price, ts, result, batch>>

\* mutant: the Unlock is not deferred, the return skips it
NotUnlocked(p) == mutex

\* the deferred c.Unlock() of line 49
Unlocked(p) == IF mutex = p THEN NoOne ELSE mutex

\* line 52: return price, nil, then the deferred Unlock
ReturnUnlock(p) ==
    /\ fatal = "none"
    /\ pc[p] = "L52"
    /\ result' = [result EXCEPT ![p] = [price |-> price[p], err |-> Nil]]
    /\ mutex' = Unlocked(p)
    /\ pc' = [pc EXCEPT ![p] = "ret"]
    /\ UNCHANGED <<now, fatal, prices, expirationByItem, ghost, itemCode, price, ts,
                   batch>>

\* A direct caller takes the result; its frame is gone.
Finish(p) ==
    /\ fatal = "none"
    /\ p \in Callers
    /\ pc[p] = "ret"
    /\ pc' = [pc EXCEPT ![p] = "idle"]
    /\ itemCode' = [itemCode EXCEPT ![p] = "A"]
    /\ price' = [price EXCEPT ![p] = 0]
    /\ ts' = [ts EXCEPT ![p] = ZeroTime]
    /\ result' = [result EXCEPT ![p] = NoResult]
    /\ seenAt' = [seenAt EXCEPT ![p] = ZeroTime]
    /\ checkAt' = [checkAt EXCEPT ![p] = ZeroTime]
    /\ upCalls' = [upCalls EXCEPT ![p] = 0]
    /\ acquired' = [acquired EXCEPT ![p] = FALSE]
    /\ UNCHANGED <<now, fatal, store, priceBy, tsBy, batch>>

\* The map reads of lines 38 and 40 take no lock. A read that overlaps another
\* goroutine's map write (lines 50, 51) is a data race; besides reading the
\* old or the new value, the runtime may end the program with
\* "fatal error: concurrent map read and map write".
MapRace(p) ==
    /\ fatal = "none"
    /\ pc[p] \in {"L38", "L40"}
    /\ \E q \in Procs \ {p} : pc[q] \in {"L50", "L51"}
    /\ fatal' = "concurrent map read and map write"
    /\ UNCHANGED <<now, store, ghost, locals, batch>>

GetPriceFor(p) ==
    \/ ReadPrice(p)
    \/ CheckFresh(p)
    \/ ServiceFails(p)
    \/ \E v \in Prices : ServiceReturns(p, v)
    \/ Lock(p)
    \/ WritePrice(p)
    \/ WriteExpiration(p)
    \/ ReturnUnlock(p)

\* ---------------------------------------------------------- GetPricesFor
\* line 57-62: a call GetPricesFor(codes...); the channels are made
CallBatch(codes) ==
    /\ fatal = "none"
    /\ cpc = "idle"
    /\ itemCodes' = codes
    /\ cpc' = "L64"
    /\ UNCHANGED <<now, fatal, store, ghost, locals, i, w, inputClosed,
                   errOutputClosed, outputClosed, err, returned, hpc, results>>

\* line 64: go c.handleResults(input, output, &w)
GoHandleResults ==
    /\ fatal = "none"
    /\ cpc = "L64"
    /\ hpc' = "L81"
    /\ i' = 1
    /\ cpc' = "L65"
    /\ UNCHANGED <<now, fatal, store, ghost, locals, itemCodes, w, inputClosed,
                   errOutputClosed, outputClosed, err, returned, results>>

\* line 65-67: w.Add(1); go c.getConcurrentPrice(input, itemCode, errOutput)
\* The new goroutine is about to execute line 90, which enters GetPriceFor.
Spawn ==
    /\ fatal = "none"
    /\ cpc = "L65"
    /\ i <= Len(itemCodes)
    /\ w' = w + 1
    /\ pc' = [pc EXCEPT ![i] = "L38"]
    /\ itemCode' = [itemCode EXCEPT ![i] = itemCodes[i]]
    /\ i' = i + 1
    /\ UNCHANGED <<now, fatal, store, ghost, price, ts, result, cpc, itemCodes,
                   inputClosed, errOutputClosed, outputClosed, err, returned, hpc,
                   results>>

\* line 65: the range loop is over
LoopDone ==
    /\ fatal = "none"
    /\ cpc = "L65"
    /\ i > Len(itemCodes)
    /\ cpc' = "L69"
    /\ UNCHANGED <<now, fatal, store, ghost, locals, itemCodes, i, w, inputClosed,
                   errOutputClosed, outputClosed, err, returned, hpc, results>>

\* mutant: Wait returns at once
WaitOverAtOnce(n) == TRUE

\* sync.WaitGroup.Wait blocks until the counter is zero
WaitOver(n) == n = 0

\* line 69: w.Wait()
Wait ==
    /\ fatal = "none"
    /\ cpc = "L69"
    /\ WaitOver(w)
    /\ cpc' = "L70"
    /\ UNCHANGED <<now, fatal, store, ghost, locals, itemCodes, i, w, inputClosed,
                   errOutputClosed, outputClosed, err, returned, hpc, results>>

\* line 70: close(input)
CloseInput ==
    /\ fatal = "none"
    /\ cpc = "L70"
    /\ inputClosed' = TRUE
    /\ cpc' = "L71"
    /\ UNCHANGED <<now, fatal, store, ghost, locals, itemCodes, i, w,
                   errOutputClosed, outputClosed, err, returned, hpc, results>>

\* line 72: if err != nil
AfterErr(e) == IF e # Nil THEN "L73" ELSE "L75"

\* line 71 with line 92: err := <-errOutput receives what worker p sends
ReceiveErr(p) ==
    /\ fatal = "none"
    /\ cpc = "L71"
    /\ p \in Workers
    /\ pc[p] = "L92"
    /\ ~errOutputClosed
    /\ err' = result[p].err
    /\ cpc' = AfterErr(result[p].err)
    /\ pc' = [pc EXCEPT ![p] = "exit"]
    /\ UNCHANGED <<now, fatal, store, ghost, itemCode, price, ts, result, itemCodes,
                   i, w, inputClosed, errOutputClosed, outputClosed, returned, hpc,
                   results>>

\* line 73: close(errOutput)
CloseErrOutput ==
    /\ fatal = "none"
    /\ cpc = "L73"
    /\ errOutputClosed' = TRUE
    /\ cpc' = "L75"
    /\ UNCHANGED <<now, fatal, store, ghost, locals, itemCodes, i, w, inputClosed,
                   outputClosed, err, returned, hpc, results>>

\* line 75 with line 85: return <-output, err receives the collector's results;
\* then the deferred close(output) of line 62 runs and the call returns
ReceiveOutput ==
    /\ fatal = "none"
    /\ cpc = "L75"
    /\ hpc = "L85"
    /\ returned' = results
    /\ outputClosed' = TRUE
    /\ hpc' = "exit"
    /\ cpc' = "returned"
    /\ UNCHANGED <<now, fatal, store, ghost, locals, itemCodes, i, w, inputClosed,
                   errOutputClosed, err, results>>

\* A collector that drops the zero of a failed lookup instead of appending it
\* (a variant of Collect).
CollectSkipsFailed(p) ==
    /\ fatal = "none"
    /\ hpc = "L81"
    /\ p \in Workers
    /\ pc[p] = "ret"
    /\ ~inputClosed
    /\ results' = IF result[p].err = Nil THEN Append(results, result[p].price)
                                        ELSE results
    /\ hpc' = "L83"
    /\ pc' = [pc EXCEPT ![p] = "L92"]
    /\ price' = [price EXCEPT ![p] = 0]
    /\ ts' = [ts EXCEPT ![p] = ZeroTime]
    /\ seenAt' = [seenAt EXCEPT ![p] = ZeroTime]
    /\ checkAt' = [checkAt EXCEPT ![p] = ZeroTime]
    /\ upCalls' = [upCalls EXCEPT ![p] = 0]
    /\ acquired' = [acquired EXCEPT ![p] = FALSE]
    /\ UNCHANGED <<now, fatal, store, priceBy, tsBy, itemCode, result, cpc,
                   itemCodes, i, w, inputClosed, errOutputClosed, outputClosed, err,
                   returned>>

\* -------------------------------------------------------- handleResults
\* line 81-82 with line 91: for result := range input receives the price that
\* worker p sends (input <- price), and appends it
Collect(p) ==
    /\ fatal = "none"
    /\ hpc = "L81"
    /\ p \in Workers
    /\ pc[p] = "ret"
    /\ ~inputClosed
    /\ results' = Append(results, result[p].price)
    /\ hpc' = "L83"
    /\ pc' = [pc EXCEPT ![p] = "L92"]
    \* the frame of the worker's GetPriceFor call is gone
    /\ price' = [price EXCEPT ![p] = 0]
    /\ ts' = [ts EXCEPT ![p] = ZeroTime]
    /\ seenAt' = [seenAt EXCEPT ![p] = ZeroTime]
    /\ checkAt' = [checkAt EXCEPT ![p] = ZeroTime]
    /\ upCalls' = [upCalls EXCEPT ![p] = 0]
    /\ acquired' = [acquired EXCEPT ![p] = FALSE]
    /\ UNCHANGED <<now, fatal, store, priceBy, tsBy, itemCode, result, cpc,
                   itemCodes, i, w, inputClosed, errOutputClosed, outputClosed, err,
                   returned>>

\* line 83: wg.Done()
Done ==
    /\ fatal = "none"
    /\ hpc = "L83"
    /\ w' = w - 1
    /\ hpc' = "L81"
    /\ UNCHANGED <<now, fatal, store, ghost, locals, cpc, itemCodes, i, inputClosed,
                   errOutputClosed, outputClosed, err, returned, results>>

\* line 81: the range loop ends when input is closed
RangeOver ==
    /\ fatal = "none"
    /\ hpc = "L81"
    /\ inputClosed
    /\ hpc' = "L85"
    /\ UNCHANGED <<now, fatal, store, ghost, locals, cpc, itemCodes, i, w,
                   inputClosed, errOutputClosed, outputClosed, err, returned,
                   results>>

\* --------------------------------------------------- getConcurrentPrice
\* A send on a closed channel, also one blocked when the channel is closed,
\* panics: line 91 on input, line 92 on errOutput.
OnClosedChannel(p) ==
    \/ pc[p] = "ret" /\ inputClosed
    \/ pc[p] = "L92" /\ errOutputClosed

\* The panic of a goroutine ends the program.
SendPanics(p) ==
    /\ fatal = "none"
    /\ p \in Workers
    /\ OnClosedChannel(p)
    /\ fatal' = "panic: send on closed channel"
    /\ pc' = [pc EXCEPT ![p] = "panic"]
    /\ UNCHANGED <<now, store, ghost, itemCode, price, ts, result, batch>>

\* ------------------------------------------------------- specifications
\* The store: the direct callers of GetPriceFor and the clock.
NextStore ==
    \/ Tick
    \/ \E p \in Callers, k \in Keys : Call(p, k)
    \/ \E p \in Callers : GetPriceFor(p)
    \/ \E p \in Callers : Finish(p)
    \/ \E p \in Callers : MapRace(p)

\* One call of GetPricesFor on a new cache: the coordinator, the collector and
\* the workers, each worker running GetPriceFor.
NextBatch ==
    \/ Tick
    \/ \E codes \in KeySeqs : CallBatch(codes)
    \/ GoHandleResults
    \/ Spawn
    \/ LoopDone
    \/ Wait
    \/ CloseInput
    \/ \E p \in Workers : GetPriceFor(p)
    \/ \E p \in Workers : MapRace(p)
    \/ \E p \in Workers : Collect(p)
    \/ Done
    \/ RangeOver
    \/ \E p \in Workers : ReceiveErr(p)
    \/ CloseErrOutput
    \/ ReceiveOutput
    \/ \E p \in Workers : SendPanics(p)

\* One caller alone: no second goroutine.
NextSeq ==
    \/ Tick
    \/ \E k \in Keys : Call(0, k)
    \/ GetPriceFor(0)
    \/ Finish(0)

Next == NextStore \/ NextBatch

Spec == Init /\ [][Next]_vars
SpecStore == Init /\ [][NextStore]_vars
SpecBatch == Init /\ [][NextBatch]_vars
SpecSeq == Init /\ [][NextSeq]_vars

\* ------------------------------------------------------------- claims
\* The workers of the call: one per requested key occurrence.
Started == 1..Len(itemCodes)
Failed(p) == result[p].err # Nil
BatchReturned == cpc = "returned"

\* C1: whenever GetPricesFor has returned and the GetPriceFor invocation of at
\* least one of its keys failed, the error it returned is not nil.
C1_AnyFailureIsReported ==
    (BatchReturned /\ \E p \in Started : Failed(p)) => err # Nil

\* The coordinator waits at the receive of line 71 and no goroutine is left
\* that will ever send on errOutput.
StuckAtReceive ==
    /\ cpc = "L71"
    /\ \A p \in Workers : pc[p] \in {"off", "exit", "panic"}

\* C2: a call with zero keys is never blocked at a channel receive (it goes on
\* to return the empty result and no error).
C2_ZeroKeysNeverBlocks ==
    Len(itemCodes) = 0 => ~StuckAtReceive

\* C3: whenever GetPricesFor has returned for N >= 1 keys (duplicates allowed)
\* whose invocations all succeeded, it returned exactly N values and a nil
\* error.
C3_AllSucceedAllReturned ==
    (BatchReturned /\ Len(itemCodes) >= 1 /\ \A p \in Started : ~Failed(p))
        => (Len(returned) = Len(itemCodes) /\ err = Nil)

C3_Witness ==
    /\ BatchReturned
    /\ Len(itemCodes) = MaxKeys
    /\ itemCodes[1] = itemCodes[2]
    /\ \A p \in Started : ~Failed(p)
    /\ Len(returned) = MaxKeys

\* C10: once GetPricesFor has returned, every worker it started has finished:
\* none is left at its send on errOutput (line 92).
C10_NoWorkerLeftBehind ==
    BatchReturned => \A p \in Started : pc[p] = "exit"

\* A call that has returned without calling the upstream service: a cache hit.
Hit(p) == pc[p] = "ret" /\ upCalls[p] = 0

\* C4: a price returned from the cache was stored at a time T with T + maxAge
\* strictly after the time of the freshness check (a price whose stamp is
\* still being written is newer than the check).
C4_HitIsNeverStale ==
    \A p \in Procs :
        Hit(p) => (seenAt[p] = Pending \/ seenAt[p] + maxAge > checkAt[p])

\* The price read at line 38 had stamp T, the stamp was still T at the check
\* of line 40, and the check was made before T + maxAge.
FreshAtCall(p) ==
    /\ pc[p] = "ret"
    /\ seenAt[p] \in Time
    /\ ts[p] = seenAt[p]
    /\ checkAt[p] < seenAt[p] + maxAge

\* C5: a call that finds the value v stored at T, with no later write, and
\* checks it at T' < T + maxAge, makes no upstream call and returns v.
C5_Freshness ==
    \A p \in Procs :
        FreshAtCall(p) =>
            /\ upCalls[p] = 0
            /\ result[p] = [price |-> price[p], err |-> Nil]
            /\ ~acquired[p]

C5_Witness ==
    \E p \in Callers :
        /\ FreshAtCall(p)
        /\ Hit(p)
        /\ prices[itemCode[p]] = result[p].price
        /\ now > 0

\* The caller found no entry, or an entry stored at T and checked at
\* T' >= T + maxAge.
MissingOrExpired(p) ==
    \/ seenAt[p] = ZeroTime
    \/ seenAt[p] \in Time /\ checkAt[p] >= seenAt[p] + maxAge

\* C6: a call made alone for a key that is missing or expired (also at exactly
\* T' = T + maxAge) calls the upstream service exactly once; it returns the
\* upstream result, and on success that result is stored for the key with a
\* new stamp.
C6_Expiry ==
    (pc[0] = "ret" /\ MissingOrExpired(0)) =>
        /\ upCalls[0] = 1
        /\ result[0].err = Nil =>
              /\ result[0].price = price[0]
              /\ acquired[0]
              /\ itemCode[0] \in DOMAIN prices
              /\ itemCode[0] \in DOMAIN expirationByItem
              /\ prices[itemCode[0]] = result[0].price
              /\ expirationByItem[itemCode[0]] > seenAt[0]
              /\ expirationByItem[itemCode[0]] >= checkAt[0]
              /\ expirationByItem[itemCode[0]] <= now

\* an entry expired at exactly T' = T + maxAge was replaced by another price
C6_Witness ==
    /\ pc[0] = "ret"
    /\ seenAt[0] \in Time
    /\ checkAt[0] = seenAt[0] + maxAge
    /\ upCalls[0] = 1
    /\ result[0].err = Nil
    /\ prices[itemCode[0]] = result[0].price
    /\ expirationByItem[itemCode[0]] = checkAt[0]

\* A call that has returned the error of a failed upstream lookup.
FailedCall(p) == pc[p] = "ret" /\ result[p].err # Nil

\* what a failed call returns, and that it never took the lock
FailureLeavesLock ==
    \A p \in Procs :
        FailedCall(p) =>
            /\ result[p] = [price |-> 0, err |-> Wrap(ServiceErr(itemCode[p]))]
            /\ upCalls[p] = 1
            /\ ~acquired[p]
            /\ mutex # p

\* the step in which the upstream lookup of p fails
FailingStep(p) == pc[p] = "L44" /\ pc'[p] = "ret"

\* no step of a call that has not taken the lock changes a map, and the
\* failing step changes neither the maps nor the lock
FailureLeavesMaps ==
    \A p \in Procs :
        /\ (pc'[p] # pc[p] /\ ~acquired'[p]) =>
               UNCHANGED <<prices, expirationByItem>>
        /\ FailingStep(p) =>
               /\ FailedCall(p)'
               /\ UNCHANGED <<prices, expirationByItem, mutex>>

\* C7: a call whose upstream lookup fails returns 0 and the wrapped error,
\* never takes the lock, and leaves both maps as they were, an expired entry
\* of the key included.
C7_FailureCachesNothing == []FailureLeavesLock /\ [][FailureLeavesMaps]_vars

\* a failed refresh of an expired entry; the entry is still there
C7_Witness ==
    \E p \in Callers :
        /\ FailedCall(p)
        /\ seenAt[p] \in Time
        /\ checkAt[p] >= seenAt[p] + maxAge
        /\ itemCode[p] \in DOMAIN prices
        /\ prices[itemCode[p]] = price[p]
        /\ expirationByItem[itemCode[p]] = seenAt[p]

InCall == {"L38", "L40", "L44", "L48", "L50", "L51", "L52"}
WriteSection == {"L50", "L51", "L52"}

\* C8: once every caller has completed, the stored value and the stored stamp
\* of every key come from the same caller's write.
C8_WriteAtomicity ==
    (\A p \in Procs : pc[p] \notin InCall) =>
        /\ DOMAIN prices = DOMAIN priceBy
        /\ DOMAIN expirationByItem = DOMAIN tsBy
        /\ \A k \in DOMAIN prices : k \in DOMAIN tsBy /\ priceBy[k] = tsBy[k]

\* two callers that both found the key missing have both written it
C8_Witness ==
    \E p, q \in Callers :
        /\ p # q
        /\ pc[p] = "ret" /\ pc[q] = "ret"
        /\ itemCode[p] = itemCode[q]
        /\ seenAt[p] = ZeroTime /\ seenAt[q] = ZeroTime
        /\ acquired[p] /\ acquired[q]
        /\ result[p].price # result[q].price
        /\ priceBy[itemCode[p]] = p /\ tsBy[itemCode[p]] = p

\* C9: at most one caller is inside the write section, it holds the lock, and
\* a caller outside the write section does not hold it (every caller that
\* took the lock has released it).
C9_MutualExclusion ==
    /\ Cardinality({p \in Procs : pc[p] \in WriteSection}) <= 1
    /\ \A p \in Procs : pc[p] \in WriteSection <=> mutex = p

\* one caller writes while the other waits for the lock
C9_Witness ==
    \E p, q \in Callers :
        /\ pc[p] = "L51"
        /\ pc[q] = "L48"
        /\ mutex = p

\* A step of the call GetPricesFor or of a goroutine it started.
BatchStep ==
    \/ GoHandleResults
    \/ Spawn
    \/ LoopDone
    \/ Wait
    \/ CloseInput
    \/ \E p \in Workers : GetPriceFor(p)
    \/ \E p \in Workers : Collect(p)
    \/ Done
    \/ RangeOver
    \/ \E p \in Workers : ReceiveErr(p)
    \/ CloseErrOutput
    \/ ReceiveOutput

\* C11: a call with N >= 1 keys whose upstream lookups all return is never
\* stopped before it has returned: until then the coordinator, the collector
\* or a worker can take a step (so under fair scheduling it returns).
C11_NeverStopsBeforeReturn ==
    (Len(itemCodes) >= 1 /\ cpc \notin {"idle", "returned"}) => ENABLED BatchStep

\* The value of worker p's GetPriceFor call has been received by the collector.
Delivered(p) == pc[p] \in {"L92", "exit", "panic"}

\* one worker per key occurrence, collected in full before input is closed
OneWorkerPerKey ==
    /\ \A p \in Workers :
          pc[p] # "off" => (p \in Started /\ itemCode[p] = itemCodes[p])
    /\ cpc \notin {"idle", "L64", "L65"} => \A p \in Started : pc[p] # "off"
    /\ inputClosed =>
          /\ Len(results) = Len(itemCodes)
          /\ \A p \in Started : Delivered(p)
    /\ BatchReturned => (inputClosed /\ returned = results)

\* a worker enters GetPriceFor only when it is started
EntersOnce ==
    \A p \in Workers : (pc'[p] = "L38" /\ pc[p] # "L38") => pc[p] = "off"

\* C12: GetPricesFor runs GetPriceFor exactly once per requested key
\* occurrence; input is closed, and the accumulated sequence handed back, only
\* after the collector has received exactly N items, failures included.
C12_AllCollectedBeforeClose == []OneWorkerPerKey /\ [][EntersOnce]_vars

\* input is closed after a success and a failure have both been collected
C12_Witness ==
    /\ cpc = "L71"
    /\ inputClosed
    /\ Len(itemCodes) = MaxKeys
    /\ Len(results) = MaxKeys
    /\ \E p, q \in Started : Failed(p) /\ ~Failed(q)

\* C13: whenever no caller is inside the write section, the value map and the
\* stamp map have the same keys.
C13_MapsHaveSameKeys ==
    (\A p \in Procs : pc[p] \notin WriteSection) =>
        DOMAIN prices = DOMAIN expirationByItem

\* both keys are stored, one caller is in a call, nobody is writing
C13_Witness ==
    /\ DOMAIN prices = Keys
    /\ DOMAIN expirationByItem = Keys
    /\ \A p \in Procs : pc[p] \notin WriteSection
    /\ \E p \in Callers : pc[p] = "L48"

\* The caller whose write of prices[k] (line 50) was the last one, when its
\* call has returned and not been left yet.
LastWriterOf(k, p) ==
    /\ priceBy[k] = p
    /\ pc[p] = "ret"
    /\ itemCode[p] = k
    /\ acquired[p]

\* C14: every call makes at most one upstream call, and once all callers have
\* completed the value stored for a key is the upstream result of the caller
\* that was the last to enter the write section for it.
C14_LastWriterWins ==
    /\ \A p \in Procs : upCalls[p] <= 1
    /\ (\A p \in Procs : pc[p] \notin InCall) =>
          \A k \in DOMAIN prices : \A p \in Procs :
              LastWriterOf(k, p) =>
                  (upCalls[p] = 1 /\ prices[k] = result[p].price)

\* two callers both found the same entry expired, each made its own upstream
\* call, and the stored value is that of the one who wrote last
C14_Witness ==
    \E p, q \in Callers :
        /\ p # q
        /\ pc[q] = "ret" /\ itemCode[q] = itemCode[p] /\ acquired[q]
        /\ seenAt[p] \in Time /\ checkAt[p] >= seenAt[p] + maxAge
        /\ seenAt[q] = seenAt[p] /\ checkAt[q] >= seenAt[q] + maxAge
        /\ upCalls[p] = 1 /\ upCalls[q] = 1
        /\ result[p].price # result[q].price
        /\ LastWriterOf(itemCode[p], p)
        /\ prices[itemCode[p]] = result[p].price

\* the step in which p's call returns the cached price
HitStep(p) == pc[p] = "L40" /\ pc'[p] = "ret"

\* the hit returns the price read, without an upstream call or the lock, and
\* writes nothing; no earlier step of the call has written either
HitWritesNothing ==
    \A p \in Procs :
        /\ HitStep(p) =>
              /\ result'[p] = [price |-> price[p], err |-> Nil]
              /\ upCalls'[p] = 0
              /\ ~acquired'[p]
              /\ UNCHANGED <<prices, expirationByItem, mutex, priceBy, tsBy>>
        /\ (pc[p] = "L38" /\ pc'[p] # "L38") =>
              UNCHANGED <<prices, expirationByItem, mutex, priceBy, tsBy>>

\* C15: a cache hit makes no upstream call, does not take the lock and leaves
\* both maps as they are: the stamp of the key is not renewed by a read.
C15_HitHasNoEffect == [][HitWritesNothing]_vars

\* a hit on an entry that another caller wrote; the entry is as it was read
C15_Witness ==
    \E p, q \in Callers :
        /\ p # q
        /\ Hit(p)
        /\ ~acquired[p]
        /\ tsBy[itemCode[p]] = q
        /\ expirationByItem[itemCode[p]] = seenAt[p]
        /\ prices[itemCode[p]] = result[p].price

\* the value or the stamp of key k is new or changed in this step
PriceSet(k) ==
    k \in DOMAIN prices' /\ (k \notin DOMAIN prices \/ prices'[k] # prices[k])
StampSet(k) ==
    /\ k \in DOMAIN expirationByItem'
    /\ (k \notin DOMAIN expirationByItem
          \/ expirationByItem'[k] # expirationByItem[k])

\* no key leaves a map, and an entry is set only by lines 50 and 51 of a
\* call whose upstream lookup has succeeded
KeysOnlyAdded ==
    /\ DOMAIN prices \subseteq DOMAIN prices'
    /\ DOMAIN expirationByItem \subseteq DOMAIN expirationByItem'
    /\ \A k \in Keys :
          /\ PriceSet(k) =>
                \E p \in Procs :
                    /\ pc[p] = "L50" /\ pc'[p] = "L51"
                    /\ itemCode[p] = k /\ upCalls[p] = 1
                    /\ prices'[k] = price[p]
          /\ StampSet(k) =>
                \E p \in Procs :
                    /\ pc[p] = "L51" /\ pc'[p] = "L52"
                    /\ itemCode[p] = k /\ upCalls[p] = 1
                    /\ expirationByItem'[k] = now

\* C16: the set of keys in the cache never shrinks; an entry is created or
\* overwritten in place only by a successful fetch.
C16_EntriesNeverRemoved == [][KeysOnlyAdded]_vars

\* both keys are stored and an expired entry has been overwritten in place
C16_Witness ==
    /\ DOMAIN prices = Keys
    /\ \E p \in Callers :
          /\ pc[p] = "ret" /\ acquired[p]
          /\ seenAt[p] \in Time
          /\ expirationByItem[itemCode[p]] > seenAt[p]
          /\ prices[itemCode[p]] = result[p].price

\* C17: when GetPricesFor has returned, a nil error means that every per-key
\* lookup succeeded, and a non-nil error is the error that the GetPriceFor
\* call of one of the failed keys returned.
C17_CompleteOrError ==
    BatchReturned =>
        /\ err = Nil => \A p \in Started : ~Failed(p)
        /\ err # Nil => \E p \in Started : Failed(p) /\ err = result[p].err

\* C18: no worker sends, or is blocked sending, on a channel that is closed:
\* not on errOutput (line 92) once line 73 has closed it, not on input
\* (line 91) once line 70 has closed it; so no goroutine panics.
C18_NoSendOnClosedChannel ==
    /\ \A p \in Workers : ~OnClosedChannel(p)
    /\ inputClosed => \A p \in Started : Delivered(p)
    /\ fatal # "panic: send on closed channel"

\* C19: for N >= 1 keys, the sequence GetPricesFor returns holds, as a
\* multiset, exactly the N values of the N per-key GetPriceFor invocations: it
\* has length N also when an error is returned, a failed invocation
\* contributing the value 0; and the values stand in the order in which the
\* workers delivered them, each delivery appending at the end, whatever the
\* position of the worker's key in the input.
Occurrences(s, v) == Cardinality({j \in 1..Len(s) : s[j] = v})
ValuesOf(v) == Cardinality({p \in Started : result[p].price = v})
ReturnedIsTheWorkersValues ==
    (BatchReturned /\ Len(itemCodes) >= 1) =>
        /\ Len(returned) = Len(itemCodes)
        /\ \A v \in Prices \cup {0} : Occurrences(returned, v) = ValuesOf(v)
        /\ \A p \in Started : Failed(p) => result[p].price = 0
AppendedAsDelivered ==
    \A p \in Workers :
        (~Delivered(p) /\ Delivered(p)') =>
            results' = Append(results, result[p].price)
C19_ReturnedInCompletionOrder ==
    []ReturnedIsTheWorkersValues /\ [][AppendedAsDelivered]_vars

\* a call that returned an error, a failed worker's 0 and the other worker's
\* price, in the reverse of the input order
C19_Witness ==
    /\ BatchReturned
    /\ Len(itemCodes) = MaxKeys
    /\ err # Nil
    /\ Failed(1) /\ ~Failed(2)
    /\ returned = <<result[2].price, result[1].price>>
    /\ result[2].price # 0

====
